---------------------------- MODULE Spec2Model ----------------------------
(***************************************************************************)
(* State-machine model of xiicps_eeprom_polled_example.c: the polled IIC   *)
(* EEPROM self-test (locate an EEPROM directly or behind a multiplexer,    *)
(* detect its page size, write 256 pages of 0xFF and read them back).      *)
(*                                                                         *)
(* The program is sequential.  Every call into the XIicPs driver or the    *)
(* hardware (slave monitor poll, master send, master receive, bus-busy     *)
(* query) is a step whose outcome is chosen by the environment.  Functions *)
(* are entered by pushing the caller's continuation on `stack' and left by *)
(* Return, which hands the status back in `retval'.                        *)
(***************************************************************************)
EXTENDS Integers, Sequences, FiniteSets

\* ------------------------------------------------------------ constants

XST_SUCCESS == "XST_SUCCESS"
XST_FAILURE == "XST_FAILURE"

SLV_MON_LOOP_COUNT == 16777215
MAX_CHANNELS == 4
MAX_SIZE == 64
PAGE_SIZE_16 == 16
PAGE_SIZE_32 == 32
PAGE_SIZE_64 == 64
EEPROM_START_ADDRESS == 0

\* sizeof(AddressType), AddressType being u16
AddressTypeSize == 2

\* number of page slots written and read back by the self-test
PageCount == 256

\* XPAR_XIICPS_NUM_INSTANCES comes from the platform's xparameters.h
NumInstances == 2

\* pages of memory of the EEPROM of a board wired in a fixed way
MemPages == 2

\* runs of the self-test in succession
NumRuns == 2

\* u16 EepromAddr[] = {0x54,0x55,0};  u16 MuxAddr[] = {0x74,0};
EepromAddr == <<84, 85, 0>>
MuxAddr == <<116, 0>>

\* variant: a trial size above MAX_SIZE in the table
PsSizesLarge == <<128, 32, 16>>

\* u32 ps[3] = {64, 32, 16};
PsSizes == <<64, 32, 16>>

\* variant: the candidate list read one entry too far
EepromAddrAtOffByOne(Index) == EepromAddr[Index + 2]

\* C arrays are indexed from 0
EepromAddrAt(Index) == EepromAddr[Index + 1]
MuxAddrAt(MuxIndex) == MuxAddr[MuxIndex + 1]

\* conversion to u8
U8(x) == x % 256

\* ------------------------------------------------------------ state

VARIABLES
    pc,            \* position in the program
    stack,         \* continuations of the callers, innermost first
    retval,        \* status returned by the function that returned last
    result,        \* return value of IicPsEepromPolledExample, "none" while running
    WriteBuffer,   \* u8 WriteBuffer[sizeof(AddressType) + MAX_SIZE]
    ReadBuffer,    \* u8 ReadBuffer[MAX_SIZE]
    EepromSlvAddr, \* u16 EepromSlvAddr
    PageSize,      \* u32 PageSize
    IicInstance,   \* bus instance the driver instance is configured for, -1 if none
    fe,            \* locals of IicPsFindEeprom
    mon,           \* arguments and locals of IicPsSlaveMonitor / FindEepromDevice
    ps,            \* locals of FindEepromPageSize
    wd,            \* arguments of EepromWriteData
    rd,            \* arguments and locals of EepromReadData
    ex,            \* locals of IicPsEepromPolledExample
    hw,            \* controller: slave monitor mode, SLV_RDY bit of the ISR, bus busy
    log,           \* history: probes and channel selects of the running Locator call
    trials,        \* history: page-size trials of the running Detector call
    xfers,         \* history: which master transfers were issued so far, any presence hit
    readyAt,       \* history: poll at which the probed slave raised SLV_RDY, 0 if not polled
    directAck,     \* the candidates that acknowledge a direct probe on the bus
                   \* instance the Locator is searching
    env,           \* the board: arbitrary (it answers as it likes), or wired in a
                   \* fixed way with the state of its multiplexers and EEPROM
    verdicts       \* the return values of the runs of the self-test so far

vars == <<pc, stack, retval, result, WriteBuffer, ReadBuffer, EepromSlvAddr,
          PageSize, IicInstance, fe, mon, ps, wd, rd, ex, hw, log, trials,
          xfers, readyAt, directAck, env, verdicts>>

globals == <<WriteBuffer, ReadBuffer, EepromSlvAddr, PageSize, IicInstance>>
locals == <<fe, mon, ps, wd, rd, ex>>
history == <<log, trials, xfers, readyAt>>

FeInit == [DeviceId |-> 0, MuxIndex |-> 0, Index |-> 0, MuxChannel |-> 0]
MonInit == [Address |-> 0, DeviceId |-> 0, Index |-> 0, IntrStatusReg |-> FALSE]
PsInit == [i |-> 0, Status |-> XST_FAILURE, WrBfrOffset |-> 0, PageSize_test |-> 0, count |-> 0]
WdInit == [ByteCount |-> 0]
RdInit == [ByteCount |-> 0, Address |-> 0, WrBfrOffset |-> 0]
ExInit == [page_count |-> 0, WrBfrOffset |-> 0]
XfersInit == [muxSend |-> FALSE, muxRecv |-> FALSE, eeSend |-> FALSE, eeRecv |-> FALSE,
              acked |-> FALSE,
              failed |-> FALSE,   \* a master transfer has returned a failure
              locator |-> "none", \* the status the Locator returned
              sendsOk |-> 0,      \* successful sends to the EEPROM ...
              recvsOk |-> 0,      \* ... successful receives from it ...
              goodPages |-> 0]    \* ... and received pages of 0xFF only, since
                                  \* the Locator returned (before: of the Locator)

InitProgram ==
    /\ pc = "start"
    /\ stack = <<>>
    /\ retval = XST_SUCCESS
    /\ result = "none"
    /\ WriteBuffer = [k \in 0 .. (AddressTypeSize + MAX_SIZE - 1) |-> 0]
    /\ ReadBuffer = [k \in 0 .. (MAX_SIZE - 1) |-> 0]
    /\ EepromSlvAddr = 0
    /\ PageSize = 0
    /\ IicInstance = -1
    /\ fe = FeInit
    /\ mon = MonInit
    /\ ps = PsInit
    /\ wd = WdInit
    /\ rd = RdInit
    /\ ex = ExInit
    /\ hw = [slvMon |-> FALSE, isrSlvRdy |-> FALSE, busBusy |-> FALSE]
    /\ log = <<>>
    /\ trials = <<>>
    /\ xfers = XfersInit
    /\ readyAt = 0
    /\ directAck = {}
    /\ verdicts = <<>>

\* what no EEPROM on the board is written as
NoEeprom == [bus |-> -1, ch |-> 0, addr |-> 0, page |-> PAGE_SIZE_16]

\* the board of which nothing is fixed: every probe and transfer may go either way
AnyBoard ==
    [det |-> FALSE, mux |-> {}, ee |-> NoEeprom, mem |-> <<>>, ptr |-> 0,
     sel |-> [d \in 0 .. (NumInstances - 1) |-> 0]]

\* the program at its start, on a board of which nothing is fixed
Init ==
    /\ InitProgram
    /\ env = AnyBoard

\* a function returns Status to its caller
Return(Status) ==
    /\ retval' = Status
    /\ pc' = Head(stack)
    /\ stack' = Tail(stack)

\* a function is entered at label entry, to continue at label cont
Call(entry, cont) ==
    /\ pc' = entry
    /\ stack' = <<cont>> \o stack
    /\ retval' = retval

Goto(label) ==
    /\ pc' = label
    /\ UNCHANGED <<stack, retval>>

\* one entry of the Locator's history
LogEntry(op, mux, addr, ch, ok) ==
    [op |-> op, dev |-> fe.DeviceId, mux |-> mux, addr |-> addr, ch |-> ch, ok |-> ok]

\* ------------------------------------------------------------ the board
\*
\* A board wired in a fixed way has a multiplexer (at the address of MuxAddr) on
\* the bus instances of env.mux and at most one EEPROM, env.ee: on bus instance
\* bus, at address addr, behind channel ch of that bus's multiplexer or directly
\* on the bus (ch = 0), with a true page size of page bytes, MemPages pages of
\* memory and a 1-byte address pointer when the page size is 16, a 2-byte pointer
\* otherwise.  Its answers are a function of its wiring and its state: the
\* channel register of each multiplexer (env.sel), the memory (env.mem) and the
\* address pointer (env.ptr) of the EEPROM.

Det == env.det

\* the multiplexer addresses of the table
MuxAddrs == {MuxAddr[j] : j \in 1 .. Len(MuxAddr)} \ {0}

\* the EEPROM at addr answers on bus instance bus
Reachable(bus, addr) ==
    /\ env.ee.bus = bus
    /\ env.ee.addr = addr
    /\ env.ee.ch = 0 \/ (bus \in env.mux /\ env.sel[bus] = env.ee.ch)

\* a slave acknowledges address addr on bus instance bus
Acknowledges(bus, addr) ==
    \/ addr \in MuxAddrs /\ bus \in env.mux
    \/ Reachable(bus, addr)

\* XIicPs_CfgInitialize and XIicPs_SetSClk succeed on a board wired in a fixed way
CfgOutcomes == IF Det THEN {TRUE} ELSE BOOLEAN

\* a transfer to the multiplexer succeeds exactly when there is one on the bus
MuxXferOutcomes == IF Det THEN {IicInstance \in env.mux} ELSE BOOLEAN

\* a transfer to the EEPROM succeeds exactly when it answers on the bus
EepromXferOutcomes == IF Det THEN {Reachable(IicInstance, EepromSlvAddr)} ELSE BOOLEAN

\* after a transfer the bus is busy for a while
BusyOutcomes == IF Det THEN {TRUE} ELSE BOOLEAN

\* the multiplexer of the bus takes the byte sent as its channel register
MuxSelect(e, bus, channel) ==
    IF e.det THEN [e EXCEPT !.sel[bus] = channel] ELSE e

\* pointer bytes the EEPROM takes from the head of a write
DevAddrBytes(e) == IF e.ee.page = PAGE_SIZE_16 THEN 1 ELSE 2

\* The EEPROM takes a write of the first n bytes of buf: the pointer bytes, then
\* data written from the pointer on, rolling over inside the page addressed.
DevWrite(e, buf, n) ==
    LET T == e.ee.page
        AW == DevAddrBytes(e)
        size == MemPages * T
        raw == IF AW = 1 THEN buf[0] ELSE buf[0] * 256 + buf[1]
        addr == raw % size
        len == n - AW
        base == addr - (addr % T)
        last(c) == LET r == (c + size - addr) % T
                   IN r + T * ((len - 1 - r) \div T)
    IN IF ~e.det \/ n < AW
       THEN e
       ELSE [e EXCEPT
               !.ptr = IF len = 0 THEN addr ELSE base + ((addr + len) % T),
               !.mem = [c \in DOMAIN e.mem |->
                          IF c >= base /\ c < base + T /\ (c + size - addr) % T < len
                          THEN buf[AW + last(c)]
                          ELSE e.mem[c]]]

\* the n bytes the EEPROM sends from its pointer on, rolling over at the end of
\* its memory
DevReadData(e, n) ==
    [k \in 0 .. (n - 1) |-> e.mem[(e.ptr + k) % (MemPages * e.ee.page)]]

\* the pointer behind a read of n bytes
DevRead(e, n) ==
    IF e.det THEN [e EXCEPT !.ptr = (e.ptr + n) % (MemPages * e.ee.page)] ELSE e

\* ------------------------------------------------------------ slave monitor

\* The poll numbers at which a probed slave may raise SLV_RDY: at once, at the
\* second poll, at the last poll of the budget, or not within the budget.
ReadyTimes == {1, 2, SLV_MON_LOOP_COUNT, SLV_MON_LOOP_COUNT + 1}

\* variant: the loop bound written as Index <= SLV_MON_LOOP_COUNT, one poll more
SlaveMonitorPollOneMore(t) ==
    IF t <= SLV_MON_LOOP_COUNT + 1
    THEN [Index |-> t, IntrStatusReg |-> TRUE]
    ELSE [Index |-> SLV_MON_LOOP_COUNT + 1, IntrStatusReg |-> FALSE]

\* while (Index < SLV_MON_LOOP_COUNT) { Index++; read ISR; if (SLV_RDY) ... }
\* with SLV_RDY first read as set at poll t: the value of Index and of the bit
\* when the loop is left.
SlaveMonitorPoll(t) ==
    IF t <= SLV_MON_LOOP_COUNT
    THEN [Index |-> t, IntrStatusReg |-> TRUE]
    ELSE [Index |-> SLV_MON_LOOP_COUNT, IntrStatusReg |-> FALSE]

FindEepromDevicePoll(t) ==
    IF t <= SLV_MON_LOOP_COUNT
    THEN [Index |-> t, IntrStatusReg |-> TRUE]
    ELSE [Index |-> SLV_MON_LOOP_COUNT, IntrStatusReg |-> FALSE]

\* IicPsSlaveMonitor: IicPsConfig(DeviceId), then XIicPs_EnableSlaveMonitor
SmConfig ==
    /\ pc = "sm_config"
    /\ \E cfgOk \in CfgOutcomes :
         IF ~cfgOk
         THEN /\ Return(XST_FAILURE)
              /\ UNCHANGED <<IicInstance, hw, mon>>
         ELSE /\ IicInstance' = mon.DeviceId
              /\ hw' = [hw EXCEPT !.slvMon = TRUE]
              /\ mon' = [mon EXCEPT !.Index = 0]
              /\ Goto("sm_poll")
    /\ UNCHANGED <<result, WriteBuffer, ReadBuffer, EepromSlvAddr, PageSize>>
    /\ UNCHANGED <<fe, ps, wd, rd, ex, history>>
    /\ UNCHANGED <<directAck, env, verdicts>>

\* The poll numbers at which the slave probed by IicPsSlaveMonitor may raise
\* SLV_RDY: a multiplexer at any of them, an EEPROM candidate (probed directly)
\* within the budget exactly when it is wired directly to the bus instance.
DirectReadyTimes ==
    IF stack # <<>> /\ Head(stack) = "fe_direct_res"
    THEN {t \in ReadyTimes : t <= SLV_MON_LOOP_COUNT <=> mon.Address \in directAck}
    ELSE ReadyTimes

\* on a board wired in a fixed way a slave that acknowledges raises SLV_RDY at
\* the first poll, and no other does
DeviceReadyTimes(bus, addr) ==
    IF Acknowledges(bus, addr) THEN {1} ELSE {SLV_MON_LOOP_COUNT + 1}

\* the poll numbers of a probe of IicPsSlaveMonitor, and of FindEepromDevice
MonitorReadyTimes ==
    IF Det THEN DeviceReadyTimes(mon.DeviceId, mon.Address) ELSE DirectReadyTimes
EepromReadyTimes ==
    IF Det THEN DeviceReadyTimes(IicInstance, mon.Address) ELSE ReadyTimes

\* IicPsSlaveMonitor: the poll loop
SmPoll ==
    /\ pc = "sm_poll"
    /\ \E t \in MonitorReadyTimes :
         LET seen == IF hw.isrSlvRdy THEN 1 ELSE t
             r == SlaveMonitorPoll(seen)
         IN /\ readyAt' = seen
            /\ mon' = [mon EXCEPT !.Index = r.Index, !.IntrStatusReg = r.IntrStatusReg]
            /\ hw' = [hw EXCEPT !.isrSlvRdy = r.IntrStatusReg]
            /\ xfers' = [xfers EXCEPT !.acked = @ \/ t <= SLV_MON_LOOP_COUNT]
    /\ Goto("sm_exit")
    /\ UNCHANGED <<result, globals, fe, ps, wd, rd, ex, log, trials>>
    /\ UNCHANGED <<directAck, env, verdicts>>

\* variant: SLV_RDY left set in the interrupt status register after a hit
SmExitNoClear ==
    /\ pc = "sm_exit"
    /\ IF mon.IntrStatusReg
       THEN /\ hw' = [hw EXCEPT !.slvMon = FALSE]
            /\ Return(XST_SUCCESS)
       ELSE /\ hw' = [hw EXCEPT !.slvMon = FALSE]
            /\ Return(XST_FAILURE)
    /\ UNCHANGED <<result, globals, locals, history>>
    /\ UNCHANGED <<directAck, env, verdicts>>

\* IicPsSlaveMonitor: leaving the loop, by the hit or by the exhausted budget
SmExit ==
    /\ pc = "sm_exit"
    /\ IF mon.IntrStatusReg
       THEN /\ hw' = [hw EXCEPT !.slvMon = FALSE, !.isrSlvRdy = FALSE]
            /\ Return(XST_SUCCESS)
       ELSE /\ hw' = [hw EXCEPT !.slvMon = FALSE]
            /\ Return(XST_FAILURE)
    /\ UNCHANGED <<result, globals, locals, history>>
    /\ UNCHANGED <<directAck, env, verdicts>>

\* FindEepromDevice: XIicPs_EnableSlaveMonitor
FdEnable ==
    /\ pc = "fd_enable"
    /\ hw' = [hw EXCEPT !.slvMon = TRUE]
    /\ mon' = [mon EXCEPT !.Index = 0]
    /\ Goto("fd_poll")
    /\ UNCHANGED <<result, globals, fe, ps, wd, rd, ex, history>>
    /\ UNCHANGED <<directAck, env, verdicts>>

\* FindEepromDevice: the poll loop
FdPoll ==
    /\ pc = "fd_poll"
    /\ \E t \in EepromReadyTimes :
         LET seen == IF hw.isrSlvRdy THEN 1 ELSE t
             r == FindEepromDevicePoll(seen)
         IN /\ readyAt' = seen
            /\ mon' = [mon EXCEPT !.Index = r.Index, !.IntrStatusReg = r.IntrStatusReg]
            /\ hw' = [hw EXCEPT !.isrSlvRdy = r.IntrStatusReg]
            /\ xfers' = [xfers EXCEPT !.acked = @ \/ t <= SLV_MON_LOOP_COUNT]
    /\ Goto("fd_exit")
    /\ UNCHANGED <<result, globals, fe, ps, wd, rd, ex, log, trials>>
    /\ UNCHANGED <<directAck, env, verdicts>>

\* FindEepromDevice: leaving the loop
FdExit ==
    /\ pc = "fd_exit"
    /\ IF mon.IntrStatusReg
       THEN /\ hw' = [hw EXCEPT !.slvMon = FALSE, !.isrSlvRdy = FALSE]
            /\ Return(XST_SUCCESS)
       ELSE /\ hw' = [hw EXCEPT !.slvMon = FALSE]
            /\ Return(XST_FAILURE)
    /\ UNCHANGED <<result, globals, locals, history>>
    /\ UNCHANGED <<directAck, env, verdicts>>

\* variant: the status of IicPsSlaveMonitor ignored
IicPsFindDeviceAlways(Status) == XST_SUCCESS

\* IicPsFindDevice hands the status of IicPsSlaveMonitor on
IicPsFindDevice(Status) ==
    IF Status = XST_SUCCESS THEN XST_SUCCESS ELSE XST_FAILURE

\* ------------------------------------------------------------ MuxInitChannel

\* the controller frees the bus
BusIdle ==
    /\ hw.busBusy
    /\ hw' = [hw EXCEPT !.busBusy = FALSE]
    /\ UNCHANGED <<pc, stack, retval, result, globals, locals, history>>
    /\ UNCHANGED <<directAck, env, verdicts>>

\* while (XIicPs_BusIsBusy(&IicInstance)); before the send
MiWaitIdle ==
    /\ pc = "mi_wait1"
    /\ ~hw.busBusy
    /\ Goto("mi_send")
    /\ UNCHANGED <<result, globals, locals, hw, history>>
    /\ UNCHANGED <<directAck, env, verdicts>>

\* XIicPs_MasterSendPolled(&IicInstance, &WriteBuffer, 1, MuxIicAddr)
MiSend ==
    /\ pc = "mi_send"
    /\ \E ok \in MuxXferOutcomes :
         /\ xfers' = [xfers EXCEPT !.muxSend = TRUE, !.failed = @ \/ ~ok]
         /\ IF ~ok
            THEN /\ Return(XST_FAILURE)
                 /\ UNCHANGED <<hw, env>>
            ELSE /\ \E busy \in BusyOutcomes : hw' = [hw EXCEPT !.busBusy = busy]
                 /\ env' = MuxSelect(env, IicInstance, fe.MuxChannel)
                 /\ Goto("mi_wait2")
    /\ UNCHANGED <<result, globals, locals, log, trials, readyAt>>
    /\ UNCHANGED <<directAck, verdicts>>

\* while (XIicPs_BusIsBusy(&IicInstance)); between the send and the receive
MiWaitSent ==
    /\ pc = "mi_wait2"
    /\ ~hw.busBusy
    /\ Goto("mi_recv")
    /\ UNCHANGED <<result, globals, locals, hw, history>>
    /\ UNCHANGED <<directAck, env, verdicts>>

\* XIicPs_MasterRecvPolled(&IicInstance, &Buffer, 1, MuxIicAddr)
MiRecv ==
    /\ pc = "mi_recv"
    /\ \E ok \in MuxXferOutcomes :
         /\ xfers' = [xfers EXCEPT !.muxRecv = TRUE, !.failed = @ \/ ~ok]
         /\ IF ~ok
            THEN /\ Return(XST_FAILURE)
                 /\ UNCHANGED hw
            ELSE /\ \E busy \in BusyOutcomes : hw' = [hw EXCEPT !.busBusy = busy]
                 /\ Goto("mi_wait3")
    /\ UNCHANGED <<result, globals, locals, log, trials, readyAt>>
    /\ UNCHANGED <<directAck, env, verdicts>>

\* while (XIicPs_BusIsBusy(&IicInstance)); return XST_SUCCESS;
MiWaitDone ==
    /\ pc = "mi_wait3"
    /\ ~hw.busBusy
    /\ Return(XST_SUCCESS)
    /\ UNCHANGED <<result, globals, locals, hw, history>>
    /\ UNCHANGED <<directAck, env, verdicts>>

\* ------------------------------------------------------------ IicPsFindEeprom

\* variant: the channel mask shifted by two
NextMuxChannelByTwo(MuxChannel) == MuxChannel \div 4

\* MuxChannel = MuxChannel >> 1
NextMuxChannel(MuxChannel) == MuxChannel \div 2

\* The sets of candidates that may acknowledge a direct probe on the bus
\* instance searched next: any, or on a board wired in a fixed way those that do.
DirectAckChoices ==
    LET cands == {a \in {EepromAddr[j] : j \in 1 .. Len(EepromAddr)} : a # 0}
    IN IF Det
       THEN {{a \in cands : Reachable(fe.DeviceId, a)}}
       ELSE SUBSET cands

\* for (DeviceId = 0; DeviceId < XPAR_XIICPS_NUM_INSTANCES; DeviceId++)
FeDevice ==
    /\ pc = "fe_dev"
    /\ IF fe.DeviceId < NumInstances
       THEN /\ fe' = [fe EXCEPT !.MuxIndex = 0]
            /\ Goto("fe_mux")
            /\ directAck' \in DirectAckChoices
       ELSE /\ Return(XST_FAILURE)
            /\ UNCHANGED <<fe, directAck>>
    /\ UNCHANGED <<result, globals, mon, ps, wd, rd, ex, hw, history>>
    /\ UNCHANGED <<env, verdicts>>

\* for (MuxIndex = 0; MuxAddr[MuxIndex] != 0; MuxIndex++)
\*     Status = IicPsFindDevice(MuxAddr[MuxIndex], DeviceId);
FeMux ==
    /\ pc = "fe_mux"
    /\ IF MuxAddrAt(fe.MuxIndex) # 0
       THEN /\ mon' = [MonInit EXCEPT !.Address = MuxAddrAt(fe.MuxIndex),
                                      !.DeviceId = fe.DeviceId]
            /\ Call("sm_config", "fe_mux_res")
            /\ UNCHANGED fe
       ELSE /\ fe' = [fe EXCEPT !.Index = 0]
            /\ Goto("fe_direct")
            /\ UNCHANGED mon
    /\ UNCHANGED <<result, globals, ps, wd, rd, ex, hw, history>>
    /\ UNCHANGED <<directAck, env, verdicts>>

\* if (Status == XST_SUCCESS) { for (Index = 0; ...
FeMuxRes ==
    /\ pc = "fe_mux_res"
    /\ LET Status == IicPsFindDevice(retval)
       IN /\ log' = Append(log, LogEntry("mux", MuxAddrAt(fe.MuxIndex), 0, 0,
                                         Status = XST_SUCCESS))
          /\ IF Status = XST_SUCCESS
             THEN /\ fe' = [fe EXCEPT !.Index = 0]
                  /\ Goto("fe_addr")
             ELSE /\ fe' = [fe EXCEPT !.MuxIndex = @ + 1]
                  /\ Goto("fe_mux")
    /\ mon' = MonInit
    /\ readyAt' = 0
    /\ UNCHANGED <<result, globals, ps, wd, rd, ex, hw, trials, xfers>>
    /\ UNCHANGED <<directAck, env, verdicts>>

\* for (Index = 0; EepromAddr[Index] != 0; Index++)
\*     for (MuxChannel = MAX_CHANNELS; ...
FeAddr ==
    /\ pc = "fe_addr"
    /\ IF EepromAddrAt(fe.Index) # 0
       THEN /\ fe' = [fe EXCEPT !.MuxChannel = MAX_CHANNELS]
            /\ Goto("fe_chan")
       ELSE /\ fe' = [fe EXCEPT !.MuxIndex = @ + 1]
            /\ Goto("fe_mux")
    /\ UNCHANGED <<result, globals, mon, ps, wd, rd, ex, hw, history>>
    /\ UNCHANGED <<directAck, env, verdicts>>

\* for (...; MuxChannel > 0x0; MuxChannel = MuxChannel >> 1)
\*     Status = MuxInitChannel(MuxAddr[MuxIndex], MuxChannel);
FeChan ==
    /\ pc = "fe_chan"
    /\ IF fe.MuxChannel > 0
       THEN /\ Call("mi_wait1", "fe_chan_res")
            /\ UNCHANGED fe
       ELSE /\ fe' = [fe EXCEPT !.Index = @ + 1]
            /\ Goto("fe_addr")
    /\ UNCHANGED <<result, globals, mon, ps, wd, rd, ex, hw, history>>
    /\ UNCHANGED <<directAck, env, verdicts>>

\* variant: a failed channel select skipped, the next channel tried
FeChanResSkip ==
    /\ pc = "fe_chan_res"
    /\ log' = Append(log, LogEntry("select", MuxAddrAt(fe.MuxIndex), EepromAddrAt(fe.Index),
                                   fe.MuxChannel, retval = XST_SUCCESS))
    /\ IF retval # XST_SUCCESS
       THEN /\ fe' = [fe EXCEPT !.MuxChannel = NextMuxChannel(@)]
            /\ Goto("fe_chan")
            /\ UNCHANGED mon
       ELSE /\ mon' = [MonInit EXCEPT !.Address = EepromAddrAt(fe.Index)]
            /\ Call("fd_enable", "fe_found_res")
            /\ UNCHANGED fe
    /\ UNCHANGED <<result, globals, ps, wd, rd, ex, hw, trials, xfers, readyAt>>
    /\ UNCHANGED <<directAck, env, verdicts>>

\* if (Status != XST_SUCCESS) return XST_FAILURE;
\* Status = FindEepromDevice(EepromAddr[Index]);
FeChanRes ==
    /\ pc = "fe_chan_res"
    /\ log' = Append(log, LogEntry("select", MuxAddrAt(fe.MuxIndex), EepromAddrAt(fe.Index),
                                   fe.MuxChannel, retval = XST_SUCCESS))
    /\ IF retval # XST_SUCCESS
       THEN /\ Return(XST_FAILURE)
            /\ UNCHANGED mon
       ELSE /\ mon' = [MonInit EXCEPT !.Address = EepromAddrAt(fe.Index)]
            /\ Call("fd_enable", "fe_found_res")
    /\ UNCHANGED <<result, globals, fe, ps, wd, rd, ex, hw, trials, xfers, readyAt>>
    /\ UNCHANGED <<directAck, env, verdicts>>

\* variant: the address of the candidate found not stored
FeFoundNoAddr ==
    /\ pc = "fe_found_res"
    /\ log' = Append(log, LogEntry("eeprom", MuxAddrAt(fe.MuxIndex), EepromAddrAt(fe.Index),
                                   fe.MuxChannel, retval = XST_SUCCESS))
    /\ IF retval = XST_SUCCESS
       THEN /\ ps' = PsInit
            /\ trials' = <<>>
            /\ Call("ps_trial", "fe_ps_res")
            /\ UNCHANGED fe
       ELSE /\ fe' = [fe EXCEPT !.MuxChannel = NextMuxChannel(@)]
            /\ Goto("fe_chan")
            /\ UNCHANGED <<ps, trials>>
    /\ mon' = MonInit
    /\ readyAt' = 0
    /\ UNCHANGED <<result, WriteBuffer, ReadBuffer, EepromSlvAddr, PageSize, IicInstance>>
    /\ UNCHANGED <<wd, rd, ex, hw, xfers>>
    /\ UNCHANGED <<directAck, env, verdicts>>

\* if (Status == XST_SUCCESS) { *Eeprom_Addr = EepromAddr[Index];
\*     Status = FindEepromPageSize(EepromAddr[Index], PageSize);
FeFound ==
    /\ pc = "fe_found_res"
    /\ log' = Append(log, LogEntry("eeprom", MuxAddrAt(fe.MuxIndex), EepromAddrAt(fe.Index),
                                   fe.MuxChannel, retval = XST_SUCCESS))
    /\ IF retval = XST_SUCCESS
       THEN /\ EepromSlvAddr' = EepromAddrAt(fe.Index)
            /\ ps' = PsInit
            /\ trials' = <<>>
            /\ Call("ps_trial", "fe_ps_res")
            /\ UNCHANGED fe
       ELSE /\ fe' = [fe EXCEPT !.MuxChannel = NextMuxChannel(@)]
            /\ Goto("fe_chan")
            /\ UNCHANGED <<EepromSlvAddr, ps, trials>>
    /\ mon' = MonInit
    /\ readyAt' = 0
    /\ UNCHANGED <<result, WriteBuffer, ReadBuffer, PageSize, IicInstance>>
    /\ UNCHANGED <<wd, rd, ex, hw, xfers>>
    /\ UNCHANGED <<directAck, env, verdicts>>

\* variant: the channel loop left by break after a successful detection, where
\* the code returns
FePageSizeBreak ==
    /\ pc = "fe_ps_res"
    /\ log' = Append(log, LogEntry("detect", MuxAddrAt(fe.MuxIndex), EepromAddrAt(fe.Index),
                                   fe.MuxChannel, retval = XST_SUCCESS))
    /\ IF retval # XST_SUCCESS
       THEN /\ Return(XST_FAILURE)
            /\ UNCHANGED fe
       ELSE /\ fe' = [fe EXCEPT !.Index = @ + 1]
            /\ Goto("fe_addr")
    /\ UNCHANGED <<result, globals, mon, ps, wd, rd, ex, hw, trials, xfers, readyAt>>
    /\ UNCHANGED <<directAck, env, verdicts>>

\* if (Status != XST_SUCCESS) return XST_FAILURE;  return XST_SUCCESS;
FePageSize ==
    /\ pc = "fe_ps_res"
    /\ log' = Append(log, LogEntry("detect", MuxAddrAt(fe.MuxIndex), EepromAddrAt(fe.Index),
                                   fe.MuxChannel, retval = XST_SUCCESS))
    /\ IF retval # XST_SUCCESS
       THEN Return(XST_FAILURE)
       ELSE Return(XST_SUCCESS)
    /\ UNCHANGED <<result, globals, locals, hw, trials, xfers, readyAt>>
    /\ UNCHANGED <<directAck, env, verdicts>>

\* variant: the page size left as it was on the path without a multiplexer
DirectPageSizeUnset == PageSize

\* *PageSize = PAGE_SIZE_32; on the path without a multiplexer
DirectPageSize == PAGE_SIZE_32

\* for (Index = 0; EepromAddr[Index] != 0; Index++)
\*     Status = IicPsFindDevice(EepromAddr[Index], DeviceId);
FeDirect ==
    /\ pc = "fe_direct"
    /\ IF EepromAddrAt(fe.Index) # 0
       THEN /\ mon' = [MonInit EXCEPT !.Address = EepromAddrAt(fe.Index),
                                      !.DeviceId = fe.DeviceId]
            /\ Call("sm_config", "fe_direct_res")
            /\ UNCHANGED fe
       ELSE /\ fe' = [fe EXCEPT !.DeviceId = @ + 1]
            /\ Goto("fe_dev")
            /\ UNCHANGED mon
    /\ UNCHANGED <<result, globals, ps, wd, rd, ex, hw, history>>
    /\ UNCHANGED <<directAck, env, verdicts>>

\* if (Status == XST_SUCCESS) { *Eeprom_Addr = EepromAddr[Index];
\*     *PageSize = PAGE_SIZE_32; return XST_SUCCESS; }
FeDirectRes ==
    /\ pc = "fe_direct_res"
    /\ LET Status == IicPsFindDevice(retval)
       IN /\ log' = Append(log, LogEntry("direct", 0, EepromAddrAt(fe.Index), 0,
                                         Status = XST_SUCCESS))
          /\ IF Status = XST_SUCCESS
             THEN /\ EepromSlvAddr' = EepromAddrAt(fe.Index)
                  /\ PageSize' = DirectPageSize
                  /\ Return(XST_SUCCESS)
                  /\ UNCHANGED fe
             ELSE /\ fe' = [fe EXCEPT !.Index = @ + 1]
                  /\ Goto("fe_direct")
                  /\ UNCHANGED <<EepromSlvAddr, PageSize>>
    /\ mon' = MonInit
    /\ readyAt' = 0
    /\ UNCHANGED <<result, WriteBuffer, ReadBuffer, IicInstance>>
    /\ UNCHANGED <<ps, wd, rd, ex, hw, trials, xfers>>
    /\ UNCHANGED <<directAck, env, verdicts>>

\* ------------------------------------------------------------ EepromWriteData

\* XIicPs_MasterSendPolled(IicInstance, WriteBuffer, ByteCount, EepromSlvAddr)
WdSend ==
    /\ pc = "wd_send"
    /\ \E ok \in EepromXferOutcomes :
         /\ xfers' = [xfers EXCEPT !.eeSend = TRUE, !.failed = @ \/ ~ok,
                                   !.sendsOk = IF ok THEN @ + 1 ELSE @]
         /\ IF ~ok
            THEN /\ Return(XST_FAILURE)
                 /\ UNCHANGED <<hw, env>>
            ELSE /\ \E busy \in BusyOutcomes : hw' = [hw EXCEPT !.busBusy = busy]
                 /\ env' = DevWrite(env, WriteBuffer, wd.ByteCount)
                 /\ Goto("wd_wait")
    /\ UNCHANGED <<result, globals, locals, log, trials, readyAt>>
    /\ UNCHANGED <<directAck, verdicts>>

\* variant: the wait written as while (!XIicPs_BusIsBusy(IicInstance));
WdWaitDoneInverted ==
    /\ pc = "wd_wait"
    /\ hw.busBusy
    /\ Return(XST_SUCCESS)
    /\ UNCHANGED <<result, globals, locals, hw, history>>
    /\ UNCHANGED <<directAck, env, verdicts>>

\* while (XIicPs_BusIsBusy(IicInstance)); usleep(250000); return XST_SUCCESS;
WdWaitDone ==
    /\ pc = "wd_wait"
    /\ ~hw.busBusy
    /\ Return(XST_SUCCESS)
    /\ UNCHANGED <<result, globals, locals, hw, history>>
    /\ UNCHANGED <<directAck, env, verdicts>>

\* ------------------------------------------------------------ EepromReadData

\* variant: the pointer of a read always taken as sizeof(AddressType) bytes
RdWrBfrOffsetWide(PageSz) == AddressTypeSize

\* WrBfrOffset of EepromReadData
RdWrBfrOffset(PageSz) == IF PageSz = PAGE_SIZE_16 THEN 1 ELSE 2

\* the address pointer EepromReadData puts at the head of WriteBuffer
RdWriteBuffer(buf, PageSz, Address) ==
    IF PageSz = PAGE_SIZE_16
    THEN [buf EXCEPT ![0] = U8(Address)]
    ELSE [buf EXCEPT ![0] = U8(Address \div 256), ![1] = U8(Address)]

\* The pages a slave may send for a receive of n bytes: the bytes last written
\* behind the address pointer, those with the last byte altered, or an erased page.
SlaveData(n, off) ==
    LET echo == [k \in 0 .. (n - 1) |-> WriteBuffer[off + k]]
    IN {echo, [echo EXCEPT ![n - 1] = U8(@ + 1)], [k \in 0 .. (n - 1) |-> 255]}

\* the data a receive of n bytes may bring
ReceivedData(n, off) ==
    IF Det THEN {DevReadData(env, n)} ELSE SlaveData(n, off)

\* the n bytes a slave sent are those of an erased page
AllErased(d, n) == \A k \in 0 .. (n - 1) : d[k] = 255

\* position the pointer: Status = EepromWriteData(IicInstance, WrBfrOffset);
RdAddr ==
    /\ pc = "rd_addr"
    /\ WriteBuffer' = RdWriteBuffer(WriteBuffer, PageSize, rd.Address)
    /\ rd' = [rd EXCEPT !.WrBfrOffset = RdWrBfrOffset(PageSize)]
    /\ wd' = [ByteCount |-> RdWrBfrOffset(PageSize)]
    /\ Call("wd_send", "rd_addr_res")
    /\ UNCHANGED <<result, ReadBuffer, EepromSlvAddr, PageSize, IicInstance>>
    /\ UNCHANGED <<fe, mon, ps, ex, hw, history>>
    /\ UNCHANGED <<directAck, env, verdicts>>

\* variant: the status of the pointer send not looked at
RdAddrResIgnore ==
    /\ pc = "rd_addr_res"
    /\ Goto("rd_recv")
    /\ UNCHANGED <<result, globals, locals, hw, history>>
    /\ UNCHANGED <<directAck, env, verdicts>>

\* if (Status != XST_SUCCESS) return XST_FAILURE;
RdAddrRes ==
    /\ pc = "rd_addr_res"
    /\ IF retval # XST_SUCCESS
       THEN Return(XST_FAILURE)
       ELSE Goto("rd_recv")
    /\ UNCHANGED <<result, globals, locals, hw, history>>
    /\ UNCHANGED <<directAck, env, verdicts>>

\* XIicPs_MasterRecvPolled(IicInstance, BufferPtr, ByteCount, EepromSlvAddr)
RdRecv ==
    /\ pc = "rd_recv"
    /\ \E ok \in EepromXferOutcomes :
         IF ~ok
         THEN /\ xfers' = [xfers EXCEPT !.eeRecv = TRUE, !.failed = TRUE]
              /\ Return(XST_FAILURE)
              /\ UNCHANGED <<hw, ReadBuffer, env>>
         ELSE /\ \E d \in ReceivedData(rd.ByteCount, rd.WrBfrOffset) :
                   /\ ReadBuffer' = [k \in DOMAIN ReadBuffer |->
                                       IF k < rd.ByteCount THEN d[k] ELSE ReadBuffer[k]]
                   /\ xfers' = [xfers EXCEPT !.eeRecv = TRUE, !.recvsOk = @ + 1,
                                   !.goodPages = IF AllErased(d, rd.ByteCount)
                                                 THEN @ + 1 ELSE @]
              /\ \E busy \in BusyOutcomes : hw' = [hw EXCEPT !.busBusy = busy]
              /\ env' = DevRead(env, rd.ByteCount)
              /\ Goto("rd_wait")
    /\ UNCHANGED <<result, WriteBuffer, EepromSlvAddr, PageSize, IicInstance>>
    /\ UNCHANGED <<locals, log, trials, readyAt>>
    /\ UNCHANGED <<directAck, verdicts>>

\* while (XIicPs_BusIsBusy(IicInstance)); return XST_SUCCESS;
RdWaitDone ==
    /\ pc = "rd_wait"
    /\ ~hw.busBusy
    /\ Return(XST_SUCCESS)
    /\ UNCHANGED <<result, globals, locals, hw, history>>
    /\ UNCHANGED <<directAck, env, verdicts>>

\* ------------------------------------------------------------ FindEepromPageSize

\* WrBfrOffset of FindEepromPageSize
PsWrBfrOffset(PageSize_test) == IF PageSize_test = PAGE_SIZE_16 THEN 1 ELSE 2

\* the address pointer and the pattern Index + i of trial i
PsWriteBuffer(buf, PageSize_test, i, Address) ==
    LET off == PsWrBfrOffset(PageSize_test)
        head == IF PageSize_test = PAGE_SIZE_16
                THEN [buf EXCEPT ![0] = U8(Address)]
                ELSE [buf EXCEPT ![0] = U8(Address \div 256), ![1] = U8(Address)]
    IN [k \in DOMAIN buf |->
          IF k >= off /\ k < off + PageSize_test THEN U8((k - off) + i) ELSE head[k]]

\* ReadBuffer[Index] = 0 for Index < n
ClearReadBuffer(buf, n) == [k \in DOMAIN buf |-> IF k < n THEN 0 ELSE buf[k]]

\* for (Index ...) if (ReadBuffer[Index] == Index + i) count++;
PsCount(buf, PageSize_test, i) ==
    Cardinality({Index \in 0 .. (PageSize_test - 1) : buf[Index] = Index + i})

\* if (count == PageSize_test) return XST_SUCCESS;
PsAccept(count, PageSize_test) == count = PageSize_test

\* return Status; after the last trial
PsLastStatus(Status) == Status

\* the page read back is the pattern of trial i in all of its S bytes
PatternMatches(buf, S, i) == \A k \in 0 .. (S - 1) : buf[k] = (k + i) % 256

\* for (i = 0; i < 3; i++) { ... Status = EepromWriteData(...)
PsTrial ==
    /\ pc = "ps_trial"
    /\ IF ps.i < 3
       THEN LET test == PsSizes[ps.i + 1]
            IN /\ ps' = [ps EXCEPT !.count = 0, !.PageSize_test = test,
                                   !.WrBfrOffset = PsWrBfrOffset(test)]
               /\ PageSize' = test
               /\ WriteBuffer' = PsWriteBuffer(WriteBuffer, test, ps.i, EEPROM_START_ADDRESS)
               /\ ReadBuffer' = ClearReadBuffer(ReadBuffer, test)
               /\ wd' = [ByteCount |-> PsWrBfrOffset(test) + test]
               /\ Call("wd_send", "ps_write_res")
       ELSE /\ Return(PsLastStatus(ps.Status))
            /\ UNCHANGED <<ps, PageSize, WriteBuffer, ReadBuffer, wd>>
    /\ UNCHANGED <<result, EepromSlvAddr, IicInstance, fe, mon, rd, ex, hw, history>>
    /\ UNCHANGED <<directAck, env, verdicts>>

\* if (Status != XST_SUCCESS) return XST_FAILURE;
\* Status = EepromReadData(&IicInstance, ReadBuffer, PageSize_test, Address);
PsWriteRes ==
    /\ pc = "ps_write_res"
    /\ ps' = [ps EXCEPT !.Status = retval]
    /\ IF retval # XST_SUCCESS
       THEN /\ Return(XST_FAILURE)
            /\ UNCHANGED rd
       ELSE /\ rd' = [ByteCount |-> ps.PageSize_test, Address |-> EEPROM_START_ADDRESS,
                      WrBfrOffset |-> 0]
            /\ Call("rd_addr", "ps_read_res")
    /\ UNCHANGED <<result, globals, fe, mon, wd, ex, hw, history>>
    /\ UNCHANGED <<directAck, env, verdicts>>

\* if (Status != XST_SUCCESS) return XST_FAILURE;  verify;  next trial
PsReadRes ==
    /\ pc = "ps_read_res"
    /\ IF retval # XST_SUCCESS
       THEN /\ ps' = [ps EXCEPT !.Status = retval]
            /\ Return(XST_FAILURE)
            /\ UNCHANGED trials
       ELSE LET count == PsCount(ReadBuffer, ps.PageSize_test, ps.i)
            IN /\ trials' = Append(trials,
                     [size |-> ps.PageSize_test,
                      match |-> PatternMatches(ReadBuffer, ps.PageSize_test, ps.i)])
               /\ IF PsAccept(count, ps.PageSize_test)
                  THEN /\ ps' = [ps EXCEPT !.Status = retval, !.count = count]
                       /\ Return(XST_SUCCESS)
                  ELSE /\ ps' = [ps EXCEPT !.Status = retval, !.count = count,
                                           !.i = @ + 1]
                       /\ Goto("ps_trial")
    /\ UNCHANGED <<result, globals, fe, mon, wd, rd, ex, hw, log, xfers, readyAt>>
    /\ UNCHANGED <<directAck, env, verdicts>>

\* ------------------------------------------------------------ IicPsEepromPolledExample

\* WrBfrOffset of IicPsEepromPolledExample
ExWrBfrOffset(PageSz) == IF PageSz = PAGE_SIZE_16 THEN 1 ELSE 2

\* the address pointer and the page of 0xFF written for page slot page_count
ExWriteBuffer(buf, PageSz, page_count, Address) ==
    LET off == ExWrBfrOffset(PageSz)
        head == IF PageSz = PAGE_SIZE_16
                THEN [buf EXCEPT ![0] = U8(Address)]
                ELSE [buf EXCEPT ![0] = U8((page_count * PageSz) \div 256),
                                 ![1] = U8(page_count * PageSz)]
    IN [k \in DOMAIN buf |-> IF k >= off /\ k < off + PageSz THEN 255 ELSE head[k]]

\* variant: the verify loop stopping one byte short of the page
ExVerifyShort(buf, PageSz) == \A Index \in 0 .. (PageSz - 2) : buf[Index] = 255

\* for (Index ...) if (ReadBuffer[Index] != 0xFF) return XST_FAILURE;
ExVerify(buf, PageSz) == \A Index \in 0 .. (PageSz - 1) : buf[Index] = 255

\* Status = IicPsFindEeprom(&EepromSlvAddr, &PageSize);
ExStart ==
    /\ pc = "start"
    /\ fe' = FeInit
    /\ Call("fe_dev", "ex_find_res")
    /\ UNCHANGED <<result, globals, mon, ps, wd, rd, ex, hw, history>>
    /\ UNCHANGED <<directAck, env, verdicts>>

\* if (Status != XST_SUCCESS) return XST_FAILURE;
ExFindRes ==
    /\ pc = "ex_find_res"
    /\ IF retval # XST_SUCCESS
       THEN /\ result' = XST_FAILURE
            /\ Goto("done")
       ELSE /\ result' = result
            /\ Goto("ex_write")
    /\ ex' = ExInit
    /\ fe' = FeInit
    /\ ps' = PsInit
    /\ log' = <<>>
    /\ trials' = <<>>
    /\ directAck' = {}
    /\ xfers' = [xfers EXCEPT !.locator = retval, !.sendsOk = 0, !.recvsOk = 0,
                              !.goodPages = 0]
    /\ UNCHANGED <<globals, mon, wd, rd, hw, readyAt>>
    /\ UNCHANGED <<env, verdicts>>

\* for (page_count = 0; page_count < 256; page_count++) { fill; EepromWriteData
ExWrite ==
    /\ pc = "ex_write"
    /\ IF ex.page_count < PageCount
       THEN /\ ex' = [ex EXCEPT !.WrBfrOffset = ExWrBfrOffset(PageSize)]
            /\ WriteBuffer' = ExWriteBuffer(WriteBuffer, PageSize, ex.page_count,
                                            EEPROM_START_ADDRESS)
            /\ ReadBuffer' = ClearReadBuffer(ReadBuffer, PageSize)
            /\ wd' = [ByteCount |-> ExWrBfrOffset(PageSize) + PageSize]
            /\ Call("wd_send", "ex_write_res")
       ELSE /\ ex' = [ex EXCEPT !.page_count = 0]
            /\ Goto("ex_read")
            /\ UNCHANGED <<WriteBuffer, ReadBuffer, wd>>
    /\ UNCHANGED <<result, EepromSlvAddr, PageSize, IicInstance>>
    /\ UNCHANGED <<fe, mon, ps, rd, hw, history>>
    /\ UNCHANGED <<directAck, env, verdicts>>

\* if (Status != XST_SUCCESS) return XST_FAILURE;
ExWriteRes ==
    /\ pc = "ex_write_res"
    /\ IF retval # XST_SUCCESS
       THEN /\ result' = XST_FAILURE
            /\ Goto("done")
            /\ UNCHANGED ex
       ELSE /\ ex' = [ex EXCEPT !.page_count = @ + 1]
            /\ Goto("ex_write")
            /\ UNCHANGED result
    /\ UNCHANGED <<globals, fe, mon, ps, wd, rd, hw, history>>
    /\ UNCHANGED <<directAck, env, verdicts>>

\* for (page_count = 0; page_count < 256; page_count++) {
\*     Status = EepromReadData(&IicInstance, ReadBuffer, PageSize, page_count * PageSize);
ExRead ==
    /\ pc = "ex_read"
    /\ IF ex.page_count < PageCount
       THEN /\ rd' = [ByteCount |-> PageSize, Address |-> ex.page_count * PageSize,
                      WrBfrOffset |-> 0]
            /\ Call("rd_addr", "ex_read_res")
            /\ UNCHANGED result
       ELSE /\ result' = XST_SUCCESS
            /\ Goto("done")
            /\ UNCHANGED rd
    /\ UNCHANGED <<globals, fe, mon, ps, wd, ex, hw, history>>
    /\ UNCHANGED <<directAck, env, verdicts>>

\* if (Status != XST_SUCCESS) return XST_FAILURE;  verify every byte
ExReadRes ==
    /\ pc = "ex_read_res"
    /\ IF retval # XST_SUCCESS \/ ~ExVerify(ReadBuffer, PageSize)
       THEN /\ result' = XST_FAILURE
            /\ Goto("done")
            /\ UNCHANGED ex
       ELSE /\ ex' = [ex EXCEPT !.page_count = @ + 1]
            /\ Goto("ex_read")
            /\ UNCHANGED result
    /\ UNCHANGED <<globals, fe, mon, ps, wd, rd, hw, history>>
    /\ UNCHANGED <<directAck, env, verdicts>>

\* ------------------------------------------------------------ specification

Next ==
    \/ ExStart
    \/ ExFindRes
    \/ ExWrite
    \/ ExWriteRes
    \/ ExRead
    \/ ExReadRes
    \/ FeDevice
    \/ FeMux
    \/ FeMuxRes
    \/ FeAddr
    \/ FeChan
    \/ FeChanRes
    \/ FeFound
    \/ FePageSize
    \/ FeDirect
    \/ FeDirectRes
    \/ SmConfig
    \/ SmPoll
    \/ SmExit
    \/ FdEnable
    \/ FdPoll
    \/ FdExit
    \/ MiWaitIdle
    \/ MiSend
    \/ MiWaitSent
    \/ MiRecv
    \/ MiWaitDone
    \/ WdSend
    \/ WdWaitDone
    \/ RdAddr
    \/ RdAddrRes
    \/ RdRecv
    \/ RdWaitDone
    \/ PsTrial
    \/ PsWriteRes
    \/ PsReadRes
    \/ BusIdle

Spec == Init /\ [][Next]_vars

\* ---- two runs in succession on a board wired in a fixed way

\* the wirings: no EEPROM, with or without a multiplexer on one bus instance; or
\* one EEPROM on a bus instance, directly on the bus or behind a channel of the
\* multiplexer of that bus instance
Wirings ==
    {[mux |-> m, ee |-> NoEeprom] : m \in {{}} \cup {{b} : b \in 0 .. (NumInstances - 1)}}
    \cup
    UNION {{[mux |-> m, ee |-> [bus |-> b, ch |-> c, addr |-> a, page |-> T]] :
               c \in {0, 4, 2, 1},
               a \in {EepromAddr[j] : j \in 1 .. Len(EepromAddr)} \ {0},
               T \in {PAGE_SIZE_16, PAGE_SIZE_32, PAGE_SIZE_64},
               m \in {{}, {b}}} : b \in 0 .. (NumInstances - 1)}

\* the boards: a wiring whose channels lead to something wired, the EEPROM's
\* memory holding one byte value throughout (erased, or zeroes), no channel
\* selected
Boards ==
    {[det |-> TRUE, mux |-> w.mux, ee |-> w.ee,
      mem |-> [c \in 0 .. (MemPages * w.ee.page - 1) |-> fill],
      ptr |-> 0,
      sel |-> [d \in 0 .. (NumInstances - 1) |-> 0]] :
        w \in {v \in Wirings : v.ee.ch # 0 => v.ee.bus \in v.mux},
        fill \in {0, 255}}

\* the program at its start on one of the boards
InitTwice ==
    /\ InitProgram
    /\ env \in Boards

\* The self-test has returned and is run again: its return value is kept, the
\* program starts over with the globals, the controller and the board as the
\* run before left them.
ExAgain ==
    /\ pc = "done"
    /\ Len(verdicts) < NumRuns - 1
    /\ verdicts' = Append(verdicts, result)
    /\ pc' = "start"
    /\ stack' = <<>>
    /\ retval' = XST_SUCCESS
    /\ result' = "none"
    /\ fe' = FeInit
    /\ mon' = MonInit
    /\ ps' = PsInit
    /\ wd' = WdInit
    /\ rd' = RdInit
    /\ ex' = ExInit
    /\ log' = <<>>
    /\ trials' = <<>>
    /\ xfers' = XfersInit
    /\ readyAt' = 0
    /\ directAck' = {}
    /\ UNCHANGED <<globals, hw, env>>

NextTwice ==
    \/ Next
    \/ ExAgain

SpecTwice == InitTwice /\ [][NextTwice]_vars

\* the steps of the program: every step but the controller freeing the bus
Program ==
    \/ ExStart \/ ExFindRes \/ ExWrite \/ ExWriteRes \/ ExRead \/ ExReadRes
    \/ FeDevice \/ FeMux \/ FeMuxRes \/ FeAddr \/ FeChan \/ FeChanRes
    \/ FeFound \/ FePageSize \/ FeDirect \/ FeDirectRes
    \/ SmConfig \/ SmPoll \/ SmExit \/ FdEnable \/ FdPoll \/ FdExit
    \/ MiWaitIdle \/ MiSend \/ MiWaitSent \/ MiRecv \/ MiWaitDone
    \/ WdSend \/ WdWaitDone
    \/ RdAddr \/ RdAddrRes \/ RdRecv \/ RdWaitDone
    \/ PsTrial \/ PsWriteRes \/ PsReadRes

\* The processor keeps executing the program: a step of the program that stays
\* possible is taken. Nothing is assumed of the controller freeing the bus.
SpecRunning == Init /\ [][Next]_vars /\ WF_vars(Program)

\* ------------------------------------------------------------ properties

\* the Locator has returned to the self-test, its history complete
LocatorReturned == pc = "ex_find_res"

\* the Detector has returned to the Locator, its trials complete
DetectorReturned == pc = "fe_ps_res"

\* C1: when every transfer of the Detector succeeded (all three trials ran to
\* their verification) and no trial read back a page matching its pattern in
\* every byte, the Detector does not return XST_SUCCESS.
C1_NoMatchFails ==
    (DetectorReturned /\ Len(trials) = 3 /\ \A t \in 1 .. 3 : ~trials[t].match)
        => retval # XST_SUCCESS

\* the self-test is about to send the page write of page slot ex.page_count
ExPageWriteSend == pc = "wd_send" /\ Head(stack) = "ex_write_res"

\* C2: the address pointer at the head of the write buffer of the self-test's
\* p-th page write encodes p * PageSize: its low byte for page size 16, its
\* high byte then its low byte for page sizes 32 and 64.
C2_WriteAddressEncoded ==
    (ExPageWriteSend /\ PageSize \in {16, 32, 64}) =>
        LET target == ex.page_count * PageSize
        IN IF PageSize = 16
           THEN WriteBuffer[0] = target % 256
           ELSE /\ WriteBuffer[0] = (target \div 256) % 256
                /\ WriteBuffer[1] = target % 256

\* C5: the Detector returns success with page size S exactly when S is the
\* first size in the order 64, 32, 16 whose read-back matches the trial's
\* pattern in every byte: trials run in that order, a trial with a mismatch is
\* followed by the next size, no trial follows a matching one, and the status
\* is XST_SUCCESS exactly when the last trial matched, PageSize being its size.
C5_AcceptFirstMatch ==
    DetectorReturned =>
        /\ \A t \in 1 .. Len(trials) : trials[t].size = <<64, 32, 16>>[t]
        /\ \A t \in 1 .. (Len(trials) - 1) : ~trials[t].match
        /\ retval = XST_SUCCESS <=>
              /\ trials # <<>>
              /\ trials[Len(trials)].match
              /\ PageSize = trials[Len(trials)].size

\* ---- the Locator's history

Devices == 0 .. (NumInstances - 1)
MuxList == {MuxAddr[j] : j \in 1 .. Len(MuxAddr)} \ {0}
CandList == {EepromAddr[j] : j \in 1 .. Len(EepromAddr)} \ {0}
ChannelList == {4, 2, 1}

LastLog == log[Len(log)]

\* the operation was carried out and its outcome seen by the Locator
Logged(op, d, m, a, c) ==
    \E j \in 1 .. Len(log) :
        /\ log[j].op = op /\ log[j].dev = d /\ log[j].mux = m
        /\ log[j].addr = a /\ log[j].ch = c

\* multiplexer m was found present on bus instance d
MuxHit(d, m) ==
    \E j \in 1 .. Len(log) :
        log[j].op = "mux" /\ log[j].dev = d /\ log[j].mux = m /\ log[j].ok

\* an EEPROM candidate answered behind a multiplexer of bus instance d
MuxPathHit(d) ==
    \E j \in 1 .. Len(log) : log[j].op = "eeprom" /\ log[j].dev = d /\ log[j].ok

\* an EEPROM candidate answered a presence probe
PresenceHit ==
    \E j \in 1 .. Len(log) : log[j].op \in {"eeprom", "direct"} /\ log[j].ok

\* every bus instance, every multiplexer address, behind every multiplexer
\* found every candidate on every channel, and every candidate directly, has
\* been probed, none of the candidates answering
Exhausted ==
    /\ ~PresenceHit
    /\ \A d \in Devices :
         /\ \A m \in MuxList :
              /\ Logged("mux", d, m, 0, 0)
              /\ MuxHit(d, m) =>
                   \A a \in CandList : \A c \in ChannelList :
                       Logged("select", d, m, a, c) /\ Logged("eeprom", d, m, a, c)
         /\ \A a \in CandList : Logged("direct", d, 0, a, 0)

LocatorFailed == LocatorReturned /\ retval = XST_FAILURE

\* C3 as stated: the Locator returns failure only after the whole search
\* space has been probed without a presence hit.
C3_FailureOnlyWhenExhausted == LocatorFailed => Exhausted

\* C3 amended: the Locator returns failure only after the whole search space
\* has been probed without a presence hit, or at once after a multiplexer
\* channel select failed or the Detector failed.
C3_FailureExhaustedOrAborted ==
    LocatorFailed =>
        \/ Exhausted
        \/ log # <<>> /\ LastLog.op \in {"select", "detect"} /\ ~LastLog.ok

\* the search space was exhausted on a platform with a multiplexer present
C3_Witness ==
    LocatorFailed /\ Exhausted /\ \E d \in Devices : \E m \in MuxList : MuxHit(d, m)

\* the direct-path probe loop is being run
DirectProbing ==
    \/ pc \in {"fe_direct", "fe_direct_res"}
    \/ \E k \in 1 .. Len(stack) : stack[k] = "fe_direct_res"

\* bus instance d is being searched and has a candidate that acknowledges a
\* direct probe
AnswersDirectly(d) == fe.DeviceId = d /\ directAck # {}

\* C4: when a candidate has answered behind a multiplexer of bus instance d
\* on which a candidate would also answer a direct probe, no direct probe is
\* issued on d, and the Locator returns from the multiplexer path with the
\* Detector run, its status being the Detector's.
C4_MuxPathPrecedence ==
    \A d \in Devices :
        (MuxPathHit(d) /\ AnswersDirectly(d)) =>
            /\ ~DirectProbing
            /\ ~\E j \in 1 .. Len(log) : log[j].op = "direct" /\ log[j].dev >= d
            /\ LocatorReturned =>
                 /\ LastLog.op = "detect" /\ LastLog.dev = d
                 /\ retval = XST_SUCCESS <=> LastLog.ok

\* the Locator returned success from the multiplexer path of a bus instance
\* on which both candidates answer directly
C4_Witness ==
    /\ LocatorReturned /\ retval = XST_SUCCESS /\ directAck = {84, 85}
    /\ MuxPathHit(fe.DeviceId) /\ MuxHit(fe.DeviceId, 116) /\ LastLog.op = "detect"

\* the candidate probes, and the channel selects, behind multiplexer m of bus d
MuxProbes(d, m) ==
    LET Test(e) == e.op = "eeprom" /\ e.dev = d /\ e.mux = m
    IN SelectSeq(log, Test)

MuxSelects(d, m) ==
    LET Test(e) == e.op = "select" /\ e.dev = d /\ e.mux = m
    IN SelectSeq(log, Test)

\* the j-th combination of the search order: candidates [0x54, 0x55] in list
\* order, for each of them the channels 4, 2, 1
IterAddr(j) == <<84, 85>>[((j - 1) \div 3) + 1]
IterCh(j) == <<4, 2, 1>>[((j - 1) % 3) + 1]

\* C8: behind a multiplexer found present the channels are selected in the
\* order 4, 2, 1 for each candidate in list order; the first combination whose
\* probe succeeds ends the search (only the Detector follows), and the Locator
\* then returns that address with the Detector's page size.  With a device
\* answering at 0x55 on channel 2 only, that is 0x55 after channel 4 was
\* selected and probed before channel 2.
C8_MuxSearchOrder ==
    /\ \A d \in Devices : \A m \in MuxList :
         LET P == MuxProbes(d, m)
             S == MuxSelects(d, m)
         IN /\ Len(S) <= 6
            /\ Len(S) \in {Len(P), Len(P) + 1}
            /\ \A j \in 1 .. Len(S) : S[j].addr = IterAddr(j) /\ S[j].ch = IterCh(j)
            /\ \A j \in 1 .. Len(P) : /\ P[j].addr = IterAddr(j) /\ P[j].ch = IterCh(j)
                                      /\ P[j].ok => j = Len(P) /\ Len(S) = Len(P)
            /\ (LocatorReturned /\ retval = XST_SUCCESS /\ Len(P) = 5 /\ P[5].ok) =>
                 /\ EepromSlvAddr = 85
                 /\ S[4].addr = 85 /\ S[4].ch = 4 /\ S[4].ok /\ ~P[4].ok
                 /\ S[5].addr = 85 /\ S[5].ch = 2
    /\ \A j \in 1 .. Len(log) :
         (log[j].op = "eeprom" /\ log[j].ok) =>
             /\ j >= Len(log) - 1
             /\ j = Len(log) - 1 => LastLog.op = "detect"
             /\ pc \notin {"fe_mux", "fe_addr", "fe_chan", "fe_chan_res", "mi_wait1",
                           "mi_send", "mi_wait2", "mi_recv", "mi_wait3", "fd_enable",
                           "fd_poll", "fd_exit"}
    /\ (LocatorReturned /\ retval = XST_SUCCESS /\ LastLog.op = "detect") =>
         /\ log[Len(log) - 1].op = "eeprom" /\ log[Len(log) - 1].ok
         /\ EepromSlvAddr = log[Len(log) - 1].addr
         /\ trials # <<>> /\ PageSize = trials[Len(trials)].size

\* the scenario: 0x54 answers on no channel, 0x55 not on 4 but on 2
C8_Witness ==
    /\ LocatorReturned /\ retval = XST_SUCCESS /\ EepromSlvAddr = 85
    /\ \E d \in Devices : LET P == MuxProbes(d, 116)
                          IN Len(P) = 5 /\ P[5].ok /\ P[5].addr = 85 /\ P[5].ch = 2

\* C9: a candidate acknowledging a direct probe ends the search: the Locator
\* returns success with that address and page size 32, the Detector not run
\* and no EEPROM send or receive issued.
C9_DirectPathDefault ==
    \A j \in 1 .. Len(log) :
        (log[j].op = "direct" /\ log[j].ok) =>
            /\ j = Len(log)
            /\ log[j].addr \in directAck
            /\ LocatorReturned /\ retval = XST_SUCCESS
            /\ EepromSlvAddr = log[j].addr
            /\ PageSize = 32
            /\ ~\E k \in 1 .. Len(log) : log[k].op \in {"eeprom", "detect"} /\ log[k].ok
            /\ trials = <<>>
            /\ ~xfers.eeSend /\ ~xfers.eeRecv

\* a direct hit on a bus instance whose multiplexer is present but has no
\* candidate behind it
C9_Witness ==
    /\ LocatorReturned /\ log # <<>> /\ LastLog.op = "direct" /\ LastLog.ok
    /\ MuxHit(LastLog.dev, 116) /\ Logged("eeprom", LastLog.dev, 116, 85, 1)

\* ---- EEPROM sends

\* EepromWriteData is about to send; the caller is the Detector's page write,
\* EepromReadData's pointer write, or the self-test's page write
EepromSend == pc = "wd_send"
SendCaller == Head(stack)

\* the caller's WrBfrOffset: the number of address-pointer bytes it put first
SendAddrBytes ==
    CASE SendCaller = "ps_write_res" -> ps.WrBfrOffset
      [] SendCaller = "rd_addr_res" -> rd.WrBfrOffset
      [] SendCaller = "ex_write_res" -> ex.WrBfrOffset

\* the payload the caller put behind the address pointer
SendPayload ==
    CASE SendCaller = "ps_write_res" -> ps.PageSize_test
      [] SendCaller = "rd_addr_res" -> 0
      [] SendCaller = "ex_write_res" -> PageSize

\* the EEPROM address the caller addresses
SendTarget ==
    CASE SendCaller = "ps_write_res" -> 0
      [] SendCaller = "rd_addr_res" -> rd.Address
      [] SendCaller = "ex_write_res" -> ex.page_count * PageSize

\* the send belongs to a trial of the Detector (its write or its read-back)
InDetectorTrial ==
    \E k \in 1 .. Len(stack) : stack[k] \in {"ps_write_res", "ps_read_res"}

\* C6: every EEPROM send carries 1 address-pointer byte exactly when the
\* global page size is 16 and 2 otherwise, the two bytes being address >> 8
\* then address & 0xFF, followed by the payload; within a Detector trial the
\* global page size, hence the width of the write and of the read-back, is
\* the trial size.
C6_AddressWidth ==
    EepromSend =>
        /\ SendAddrBytes = (IF PageSize = 16 THEN 1 ELSE 2)
        /\ wd.ByteCount = SendAddrBytes + SendPayload
        /\ SendAddrBytes = 2 =>
             /\ WriteBuffer[0] = (SendTarget \div 256) % 256
             /\ WriteBuffer[1] = SendTarget % 256
        /\ InDetectorTrial =>
             /\ PageSize = ps.PageSize_test
             /\ SendAddrBytes = (IF ps.PageSize_test = 16 THEN 1 ELSE 2)

\* the read-back of the Detector's trial of size 16 sends its 1-byte pointer
C6_Witness ==
    /\ EepromSend /\ SendCaller = "rd_addr_res" /\ InDetectorTrial
    /\ ps.PageSize_test = 16 /\ wd.ByteCount = 1

\* ---- no device

\* C7: as long as no probed address has acknowledged, no master send or
\* receive has been issued, the program is in the Locator or has returned,
\* and the Locator and the self-test return failure.
C7_NoDeviceNoTransfer ==
    ~xfers.acked =>
        /\ ~xfers.muxSend /\ ~xfers.muxRecv
        /\ ~xfers.eeSend /\ ~xfers.eeRecv
        /\ pc \in {"start", "fe_dev", "fe_mux", "fe_mux_res", "fe_direct",
                   "fe_direct_res", "sm_config", "sm_poll", "sm_exit",
                   "ex_find_res", "done"}
        /\ LocatorReturned => retval = XST_FAILURE
        /\ pc = "done" => result = XST_FAILURE

\* the self-test returned with every address of every bus instance probed
\* and none acknowledging
C7_Witness == pc = "done" /\ ~xfers.acked /\ result = XST_FAILURE

\* ---- slave presence monitor

\* IicPsSlaveMonitor or FindEepromDevice has returned to the Locator
MonitorReturned == pc \in {"fe_mux_res", "fe_direct_res", "fe_found_res"}

\* C10: the monitor returns success exactly when SLV_RDY was raised at one of
\* the polls 1 .. SLV_MON_LOOP_COUNT (failure otherwise, also when the
\* controller could not be configured), it polls no more than
\* SLV_MON_LOOP_COUNT times, the monitor mode is enabled only inside it and
\* disabled on every return, and SLV_RDY is cleared on the success exit.
C10_MonitorContract ==
    /\ hw.slvMon => pc \in {"sm_poll", "sm_exit", "fd_poll", "fd_exit"}
    /\ MonitorReturned =>
         /\ retval \in {XST_SUCCESS, XST_FAILURE}
         /\ retval = XST_SUCCESS <=> readyAt \in 1 .. 16777215
         /\ mon.Index <= 16777215
         /\ retval = XST_SUCCESS => mon.Index = readyAt /\ ~hw.isrSlvRdy
         /\ ~hw.slvMon

\* SLV_RDY was raised at the last poll of the budget
C10_Witness ==
    MonitorReturned /\ retval = XST_SUCCESS /\ readyAt = 16777215 /\ ~hw.slvMon

\* ---- self-test verdict

\* the positions at which a failure status is handed up to the caller
Unwinding ==
    {"fe_chan_res", "rd_addr_res", "ps_write_res", "ps_read_res", "fe_ps_res",
     "ex_find_res", "ex_write_res", "ex_read_res"}

\* the Locator has returned success and the self-test is writing or reading back
InSelfTest == xfers.locator = XST_SUCCESS /\ result = "none"

\* C11: the self-test returns success only if the Locator returned success, all
\* 256 page writes and all 256 page reads (a pointer send and a receive each)
\* succeeded and every received page was 0xFF in all of its bytes; after the
\* first failed master transfer, and after the first received page with a byte
\* other than 0xFF, the failure is only handed up, with no further transfer.
C11_AllOrNothing ==
    /\ pc = "done" /\ result = XST_SUCCESS =>
         /\ xfers.locator = XST_SUCCESS
         /\ ~xfers.failed
         /\ xfers.sendsOk = 256 + 256
         /\ xfers.recvsOk = 256
         /\ xfers.goodPages = 256
    /\ xfers.failed =>
         \/ pc = "done" /\ result = XST_FAILURE
         \/ pc \in Unwinding /\ retval = XST_FAILURE
    /\ InSelfTest /\ xfers.goodPages < xfers.recvsOk =>
         \/ pc = "rd_wait" /\ Head(stack) = "ex_read_res"
         \/ pc = "ex_read_res"
    /\ pc = "done" /\ xfers.goodPages < xfers.recvsOk => result = XST_FAILURE

\* the self-test returned success after 256 pages written and read back
C11_Witness ==
    pc = "done" /\ result = XST_SUCCESS /\ xfers.goodPages = 256 /\ ex.page_count = 256

\* ---- buffers

\* C12: every EEPROM send is of at most the address-pointer bytes plus 64
\* payload bytes and of at most sizeof(AddressType) + MAX_SIZE bytes, which are
\* the bytes of WriteBuffer the caller wrote (indices below 2 + 64); every
\* receive is of at most 64 bytes; and the sizes up to which ReadBuffer is
\* cleared and compared (the page size, the trial size) are at most 64.
C12_BufferBounds ==
    /\ EepromSend =>
         /\ SendAddrBytes <= 2
         /\ wd.ByteCount <= SendAddrBytes + 64
         /\ SendAddrBytes + SendPayload - 1 < 2 + 64
    /\ pc = "rd_recv" => rd.ByteCount <= 64
    /\ PageSize <= 64
    /\ ps.PageSize_test <= 64

\* the self-test sends the whole of WriteBuffer: a page of 64 bytes behind a
\* 2-byte pointer
C12_Witness ==
    EepromSend /\ wd.ByteCount = 2 + 64 /\ SendCaller = "ex_write_res" /\ PageSize = 64

\* ---- failure propagation in the Locator

\* C14: a failed channel select and a failed Detector call are the last thing
\* the Locator does: it has returned XST_FAILURE with that entry the last of
\* its history, so with no retry, no further channel, address or multiplexer
\* tried and no direct probe.
C14_LocatorFailFast ==
    \A j \in 1 .. Len(log) :
        log[j].op \in {"select", "detect"} /\ ~log[j].ok =>
            /\ j = Len(log)
            /\ LocatorReturned
            /\ retval = XST_FAILURE

\* the select of channel 2 failed after channel 4 was searched without a hit
C14_Witness ==
    /\ LocatorReturned
    /\ Len(log) > 0
    /\ LastLog.op = "select" /\ ~LastLog.ok /\ LastLog.ch = 2
    /\ retval = XST_FAILURE

\* ---- page read

\* the byte count the caller of EepromReadData asked for
ReadRequested ==
    CASE Head(stack) = "ps_read_res" -> ps.PageSize_test
      [] Head(stack) = "ex_read_res" -> PageSize

\* one step of the program keeps the order of a page read
ReadProtocolStep ==
    /\ pc = "rd_addr" =>
         /\ pc' = "wd_send"
         /\ wd'.ByteCount = (IF PageSize = 16 THEN 1 ELSE 2)
         /\ xfers' = xfers
    /\ pc' = "rd_recv" =>
         /\ pc = "rd_addr_res"
         /\ retval = XST_SUCCESS
         /\ ~hw.busBusy
         /\ xfers.sendsOk > 0
    /\ pc = "rd_recv" /\ pc' # "rd_recv" =>
         /\ rd.ByteCount = ReadRequested
         /\ xfers'.eeRecv
    /\ pc = "rd_addr_res" /\ retval # XST_SUCCESS =>
         /\ pc' = Head(stack)
         /\ pc' \in {"ps_read_res", "ex_read_res"}
         /\ retval' = XST_FAILURE
         /\ xfers' = xfers

\* C15: EepromReadData first sends exactly the address-pointer bytes (1 for
\* page size 16, else 2, no payload); the receive, of the byte count asked
\* for, is issued only from the check of that send's status, with the send
\* successful and the bus idle; a failed pointer send returns XST_FAILURE to
\* the caller with no receive issued.
C15_ReadProtocol == [][ReadProtocolStep]_vars

\* the receive of a page read of the self-test with a 1-byte pointer
C15_Witness ==
    pc = "rd_recv" /\ rd.WrBfrOffset = 1 /\ Head(stack) = "ex_read_res" /\ retval = XST_SUCCESS

\* ---- descriptor

\* the descriptor the Locator filled in is a valid one: the page size one of
\* 16, 32, 64, the address a non-zero candidate whose presence probe succeeded
DescriptorValid ==
    /\ PageSize \in {16, 32, 64}
    /\ EepromSlvAddr \in CandList
    /\ \E j \in 1 .. Len(log) :
         /\ log[j].op \in {"eeprom", "direct"}
         /\ log[j].ok
         /\ log[j].addr = EepromSlvAddr

\* C17: whenever the Locator returns success the descriptor is valid, and no
\* step of the write phase and of the read-back phase changes the page size
\* or the device address.
C17_DescriptorValid ==
    /\ [](LocatorReturned /\ retval = XST_SUCCESS => DescriptorValid)
    /\ [][InSelfTest => PageSize' = PageSize /\ EepromSlvAddr' = EepromSlvAddr]_vars
    /\ [](InSelfTest \/ (pc = "done" /\ result = XST_SUCCESS) =>
            PageSize \in {16, 32, 64} /\ EepromSlvAddr \in CandList)

\* the read-back phase running with the descriptor of a device found behind a
\* multiplexer
C17_Witness ==
    /\ InSelfTest
    /\ pc = "ex_read_res"
    /\ ex.page_count = 255
    /\ PageSize = 16
    /\ EepromSlvAddr = 85

\* ---- termination

\* C16 as claimed: whatever the device and the driver do, the self-test
\* eventually returns.
C16_AlwaysReturns == <>(pc = "done")

\* C16: the self-test eventually returns unless the bus stays busy for ever
\* from some point on; the waits for the bus have no bound of their own.
C16_ReturnsUnlessBusStuck == (<>[]hw.busBusy) \/ <>(pc = "done")

\* the self-test has returned success, every wait for the bus behind it
C16_Witness ==
    pc = "done" /\ result = XST_SUCCESS /\ xfers.sendsOk = 512 /\ ~hw.busBusy

\* ---- runs in succession

\* C13: on a board wired in a fixed way, whose state only the program changes,
\* every run of the self-test returns what the runs before it returned.
C13_Idempotent ==
    pc = "done" => \A j \in 1 .. Len(verdicts) : verdicts[j] = result

\* the second run has passed as the first did, on an EEPROM behind a multiplexer
C13_Witness ==
    /\ pc = "done"
    /\ Len(verdicts) = 1
    /\ verdicts[1] = XST_SUCCESS
    /\ result = XST_SUCCESS
    /\ env.ee.ch # 0

=============================================================================
